---------------------------- MODULE Spec2Model ----------------------------
(***************************************************************************)
(* A model of the geometric core of pharynx_redox/image_processing.py:     *)
(* midline fitting (calculate_midline), pose normalisation                 *)
(* (center_and_rotate_pharynxes), under-midline sampling                   *)
(* (measure_under_midline, measure_under_midlines) and the profile         *)
(* normalisers.  Each function has its own specification over the shared   *)
(* variables; the variables of the other functions stay at their idle      *)
(* values.                                                                 *)
(***************************************************************************)
EXTENDS Integers, Sequences, FiniteSets, TLC

VARIABLES
    \* calculate_midline
    rot_seg_img,      \* the mask handed to calculate_midline: a set of <<row, col>>
    degree,           \* its degree argument
    pad,              \* its pad argument
    mid_pc,           \* "call" before the call, "done" after it
    mid_result,       \* what the call produced
    \* center_and_rotate_pharynxes
    fl_images,        \* the caller's fluorescence stack: slice -> image value
    seg_images,       \* the caller's mask stack: slice -> mask value
    wavelengths,      \* fl_images.wavelength.data, in coordinate order
    fl_rotated_stack, \* the working copy of fl_images
    seg_rotated_stack,\* the working copy of seg_images
    rot_k,            \* the number of loop iterations completed
    rot_pc,           \* "idle", "loop", "raised" or "returned"
    rot_out,          \* the returned pair of stacks, once returned
    \* measure_under_midline
    mid,              \* the midline argument: None or a curve
    n_points,         \* the argument n_points
    thickness,        \* the argument thickness: [num, float], the value num / ThickDen
    flatten,          \* the argument flatten
    np_float_num,     \* what the installed numpy does with a float sample count
    xs0, xs1, ys0, ys1,  \* the endpoints of the normal segments
    swap_i,           \* the index the swap loop is at
    samp_pc,          \* "idle", "start", "swap", "band" or "done"
    samp_result,      \* what the call returned
    \* measure_under_midlines
    batch_wavelengths,\* the wavelength coordinate of fl_stack and midlines
    frame_specific,   \* the argument frame_specific
    midlines_arg,     \* the midlines array as the caller passed it
    midlines,         \* the midlines array as it is now
    measurements,     \* the returned profiles: slice -> profile
    batch_pc,         \* "idle", "start", "measure", "raised" or "done"
    \* the profile normalisers
    norm_fn,          \* "single_wvl" or "by_wvl_pair"
    array_kind,       \* "ndarray" or "DataArray": the type of the arguments
    fl_ndim,          \* fl_imgs.ndim
    prof_ndim,        \* profiles.ndim
    n_frames,         \* frames (animals) of the image stack and the profiles
    n_cols,           \* columns of an image
    n_pos,            \* positions of a profile
    percent_to_clip,  \* the argument percent_to_clip
    norm_wavelengths, \* the wavelength coordinate of the profiles, in order
    norm_pc,          \* "idle", "call" or "done"
    norm_result,      \* what the call produced
    \* segment_pharynx
    area_profile,     \* the image: the area measured at each threshold
    tl_channel,       \* whether the image's wavelength is the TL channel
    search,           \* the locals of the threshold search and its exit
    \* the pipeline segment_pharynxes, center_and_rotate_pharynxes,
    \* calculate_midlines
    fl_stack,         \* the fluorescence stack: slice -> pixel intensities
    seg_stack,        \* the stack segment_pharynxes returns
    pipe_midlines,    \* the midlines calculate_midlines returns
    pipe_pc           \* "idle", "segment", "rotate" or "done"

varsMid == <<rot_seg_img, degree, pad, mid_pc, mid_result>>

varsRot == <<fl_images, seg_images, wavelengths, fl_rotated_stack,
             seg_rotated_stack, rot_k, rot_pc, rot_out>>

varsSamp == <<mid, n_points, thickness, flatten, np_float_num,
              xs0, xs1, ys0, ys1, swap_i, samp_pc, samp_result>>

varsBatch == <<batch_wavelengths, frame_specific, midlines_arg, midlines,
               measurements, batch_pc>>

varsNorm == <<norm_fn, array_kind, fl_ndim, prof_ndim, n_frames, n_cols, n_pos, percent_to_clip,
              norm_wavelengths, norm_pc, norm_result>>

varsSeg == <<area_profile, tl_channel, search>>

varsPipe == <<fl_stack, seg_stack, pipe_midlines, pipe_pc>>

vars == <<rot_seg_img, degree, pad, mid_pc, mid_result,
          fl_images, seg_images, wavelengths, fl_rotated_stack,
          seg_rotated_stack, rot_k, rot_pc, rot_out,
          mid, n_points, thickness, flatten, np_float_num,
          xs0, xs1, ys0, ys1, swap_i, samp_pc, samp_result,
          batch_wavelengths, frame_specific, midlines_arg, midlines,
          measurements, batch_pc,
          norm_fn, array_kind, fl_ndim, prof_ndim, n_frames, n_cols, n_pos,
          percent_to_clip, norm_wavelengths, norm_pc, norm_result,
          area_profile, tl_channel, search,
          fl_stack, seg_stack, pipe_midlines, pipe_pc>>

\* the variables each specification leaves alone
outsideMid == <<varsRot, varsSamp, varsBatch, varsNorm, varsSeg, varsPipe>>
outsideRot == <<varsMid, varsSamp, varsBatch, varsNorm, varsSeg, varsPipe>>
outsideSamp == <<varsMid, varsRot, varsBatch, varsNorm, varsSeg, varsPipe>>
outsideBatch == <<varsMid, varsRot, varsSamp, varsNorm, varsSeg, varsPipe>>
outsideNorm == <<varsMid, varsRot, varsSamp, varsBatch, varsSeg, varsPipe>>
outsideSeg == <<varsMid, varsRot, varsSamp, varsBatch, varsNorm, varsPipe>>
\* the pipeline runs center_and_rotate_pharynxes on the variables of that function
outsidePipe == <<varsMid, varsSamp, varsBatch, varsNorm, varsSeg>>

----------------------------------------------------------------------------
(* Bounds of the model *)

ImgRows == 2
ImgCols == 3
MaxPad == 2
MaxDegree == 1
NAnimals == 2
NPairs == 2
MaxPoints == 2
ThickDen == 4
MaxThickNum == 8
MaxPos == 5
MaxPercent == 40

----------------------------------------------------------------------------
(* The idle values: what the variables of a function hold in the           *)
(* specifications of the other functions                                   *)

NoResult == [kind |-> "pending", lo |-> 0, hi |-> 0, xy |-> {}, deg |-> 0]

MidIdle ==
    /\ rot_seg_img = {}
    /\ degree = 0
    /\ pad = 0
    /\ mid_pc = "idle"
    /\ mid_result = NoResult

RotIdle ==
    /\ fl_images = <<>>
    /\ seg_images = <<>>
    /\ wavelengths = <<>>
    /\ fl_rotated_stack = <<>>
    /\ seg_rotated_stack = <<>>
    /\ rot_k = 0
    /\ rot_pc = "idle"
    /\ rot_out = <<>>

NoProfile == [kind |-> "pending", shape |-> <<>>, n_line_pts |-> 0, raised |-> FALSE]

SampIdle ==
    /\ mid = [kind |-> "None", pts |-> <<>>]
    /\ n_points = 0
    /\ thickness = [num |-> 0, float |-> FALSE]
    /\ flatten = TRUE
    /\ np_float_num = "TypeError"
    /\ xs0 = <<>> /\ xs1 = <<>> /\ ys0 = <<>> /\ ys1 = <<>>
    /\ swap_i = 0
    /\ samp_pc = "idle"
    /\ samp_result = NoProfile

BatchIdle ==
    /\ batch_wavelengths = {}
    /\ frame_specific = FALSE
    /\ midlines_arg = <<>>
    /\ midlines = <<>>
    /\ measurements = <<>>
    /\ batch_pc = "idle"

NoNormResult ==
    [outcome |-> "pending", steps |-> <<>>, window |-> {}, normalized |-> {},
     deps |-> <<>>]

NormIdle ==
    /\ norm_fn = "single_wvl"
    /\ array_kind = "ndarray"
    /\ fl_ndim = 0
    /\ prof_ndim = 0
    /\ n_frames = 0
    /\ n_cols = 0
    /\ n_pos = 0
    /\ percent_to_clip = 0
    /\ norm_wavelengths = <<>>
    /\ norm_pc = "idle"
    /\ norm_result = NoNormResult

NoSearch == [pc |-> "idle", exit |-> "none", p |-> 0, i |-> 0, area |-> 0, mask_p |-> 0]

SegIdle ==
    /\ area_profile = [levels |-> <<0, 0, 0>>, cuts |-> <<0, 0>>]
    /\ tl_channel = FALSE
    /\ search = NoSearch

PipeIdle ==
    /\ fl_stack = <<>>
    /\ seg_stack = <<>>
    /\ pipe_midlines = <<>>
    /\ pipe_pc = "idle"

IdleOutsideMid == RotIdle /\ SampIdle /\ BatchIdle /\ NormIdle /\ SegIdle /\ PipeIdle
IdleOutsideRot == MidIdle /\ SampIdle /\ BatchIdle /\ NormIdle /\ SegIdle /\ PipeIdle
IdleOutsideSamp == MidIdle /\ RotIdle /\ BatchIdle /\ NormIdle /\ SegIdle /\ PipeIdle
IdleOutsideBatch == MidIdle /\ RotIdle /\ SampIdle /\ NormIdle /\ SegIdle /\ PipeIdle
IdleOutsideNorm == MidIdle /\ RotIdle /\ SampIdle /\ BatchIdle /\ SegIdle /\ PipeIdle
IdleOutsideSeg == MidIdle /\ RotIdle /\ SampIdle /\ BatchIdle /\ NormIdle /\ PipeIdle
IdleOutsidePipe == MidIdle /\ SampIdle /\ BatchIdle /\ NormIdle /\ SegIdle

----------------------------------------------------------------------------
(* Binary images, connected components and region properties              *)
(* (skimage.measure.label / regionprops as the callers use them)           *)

Pixels == (0 .. ImgRows - 1) \X (0 .. ImgCols - 1)

Masks == SUBSET Pixels

Abs(n) == IF n < 0 THEN -n ELSE n

\* measure.label's default connectivity for a 2-D image is 2: the 8 neighbours
Adjacent(p, q) == p # q /\ Abs(p[1] - q[1]) <= 1 /\ Abs(p[2] - q[2]) <= 1

RECURSIVE Grow(_, _)
Grow(img, region) ==
    LET more == {q \in img \ region : \E p \in region : Adjacent(p, q)}
    IN  IF more = {} THEN region ELSE Grow(img, region \cup more)

\* raster (row-major) order, the order in which label() numbers the objects
RasterBefore(p, q) == p[1] < q[1] \/ (p[1] = q[1] /\ p[2] < q[2])

FirstPixel(img) == CHOOSE p \in img : \A q \in img \ {p} : RasterBefore(p, q)

\* the objects of img, in label order
RECURSIVE Label(_)
Label(img) ==
    IF img = {} THEN <<>>
    ELSE LET obj == Grow(img, {FirstPixel(img)})
         IN  <<obj>> \o Label(img \ obj)

MinOf(S) == CHOOSE x \in S : \A y \in S : x <= y
MaxOf(S) == CHOOSE x \in S : \A y \in S : y <= x

Rows(obj) == {p[1] : p \in obj}
Cols(obj) == {p[2] : p \in obj}

\* regionprops' bbox: (min_row, min_col, max_row, max_col), max exclusive
BBox(obj) ==
    <<MinOf(Rows(obj)), MinOf(Cols(obj)), MaxOf(Rows(obj)) + 1, MaxOf(Cols(obj)) + 1>>

\* measure.regionprops(measure.label(img)): one record per object
RegionProps(img) ==
    LET objs == Label(img)
    IN  [k \in 1 .. Len(objs) |->
            [coords |-> objs[k], bbox |-> BBox(objs[k]), area |-> Cardinality(objs[k])]]

\* np.argmax(np.bincount(labels.flat)[1:]) + 1: the label with the most
\* pixels, the lowest such label when several objects have that many
LargestLabel(objs) ==
    CHOOSE k \in 1 .. Len(objs) :
        /\ \A j \in 1 .. Len(objs) : Cardinality(objs[j]) <= Cardinality(objs[k])
        /\ \A j \in 1 .. k - 1 : Cardinality(objs[j]) < Cardinality(objs[k])

\* an image without objects is returned as it is
extract_largest_binary_object(bin_img) ==
    LET labels == Label(bin_img)
    IN  IF Len(labels) = 0 THEN bin_img ELSE labels[LargestLabel(labels)]

----------------------------------------------------------------------------
(* calculate_midline *)

NoneResult == [kind |-> "None", lo |-> 0, hi |-> 0, xy |-> {}, deg |-> 0]

\* the same body without the handler for IndexError
calculate_midline_unhandled(img, deg, pd) ==
    LET rps == RegionProps(img)
    IN  IF Len(rps) = 0
        THEN [kind |-> "IndexError", lo |-> 0, hi |-> 0, xy |-> {}, deg |-> 0]
        ELSE LET rp == rps[1]
                 left_bound == rp.bbox[1]
                 right_bound == rp.bbox[4]
             IN  [kind |-> "Polynomial", lo |-> left_bound - pd, hi |-> right_bound + pd,
                  xy |-> {<<p[2], p[1]>> : p \in rp.coords}, deg |-> deg]

\* Polynomial.fit(xs, ys, degree, domain=[left_bound - pad, right_bound + pad]):
\* the fitted curve is represented by its domain, the (x, y) points it was
\* fitted to and its degree; regionprops(...)[0] of an image without objects
\* raises IndexError, which the function turns into None
calculate_midline(img, deg, pd) ==
    LET rps == RegionProps(img)
    IN  IF Len(rps) = 0
        THEN NoneResult
        ELSE LET rp == rps[1]
                 left_bound == rp.bbox[1]
                 right_bound == rp.bbox[4]
             IN  [kind |-> "Polynomial", lo |-> left_bound - pd, hi |-> right_bound + pd,
                  xy |-> {<<p[2], p[1]>> : p \in rp.coords}, deg |-> deg]

InitMid ==
    /\ IdleOutsideMid
    /\ rot_seg_img \in Masks
    /\ degree \in 0 .. MaxDegree
    /\ pad \in 0 .. MaxPad
    /\ mid_pc = "call"
    /\ mid_result = NoResult

CallCalculateMidline ==
    /\ mid_pc = "call"
    /\ mid_result' = calculate_midline(rot_seg_img, degree, pad)
    /\ mid_pc' = "done"
    /\ UNCHANGED <<rot_seg_img, degree, pad>>
    /\ UNCHANGED outsideMid

NextMid == CallCalculateMidline

SpecMid == InitMid /\ [][NextMid]_vars

----------------------------------------------------------------------------
(* Claims about calculate_midline *)

OneObject(img) == Len(Label(img)) = 1

\* C1: for a mask with exactly one object the midline is non-null and its
\* domain is [min column - pad, max column bound + pad] of the object's
\* bounding box, whatever the object's row position
C1_DomainIsColumnBounds ==
    (mid_pc = "done" /\ OneObject(rot_seg_img)) =>
        /\ mid_result.kind = "Polynomial"
        /\ mid_result.lo = MinOf(Cols(rot_seg_img)) - pad
        /\ mid_result.hi = MaxOf(Cols(rot_seg_img)) + 1 + pad

\* C2: for a mask without foreground pixels calculate_midline returns None
\* and raises nothing, for any degree and pad
C2_EmptyMaskGivesNone ==
    (mid_pc = "done" /\ rot_seg_img = {}) => mid_result.kind = "None"

C2_Witness ==
    mid_pc = "done" /\ rot_seg_img = {} /\ pad > 0 /\ degree > 0 /\ mid_result.kind = "None"


----------------------------------------------------------------------------
(* center_and_rotate_pharynxes *)

Animals == 0 .. NAnimals - 1
Pairs == 0 .. NPairs - 1
Wavelengths == {"410", "470", "TL"}

\* the default of the parameter reference_wavelength
reference_wavelength == "410"

\* one (animal, wavelength, pair) slice of a stack
Slices == Animals \X Wavelengths \X Pairs

\* the masks the stacks of the model are filled with: no object, a one-pixel
\* object, and a two-pixel object elsewhere
MaskChoices == {{}, {<<0, 0>>}, {<<0, 1>>, <<1, 2>>}}

\* the reference mask of (animal, pair) is empty or holds an object that
\* differs from the one of the next animal and of the next pair
ReferenceChoices(a, pr) ==
    {{}, IF (a + pr) % 2 = 0 THEN {<<0, 0>>} ELSE {<<0, 1>>, <<1, 2>>}}

Orderings(S) ==
    {f \in [1 .. Cardinality(S) -> S] :
        \A i, j \in 1 .. Cardinality(S) : f[i] = f[j] => i = j}

RECURSIVE SumCoord(_, _)
SumCoord(px, i) ==
    IF px = {} THEN 0
    ELSE LET q == CHOOSE r \in px : TRUE IN q[i] + SumCoord(px \ {q}, i)

\* A slice of a stack is a record: at, the place of the caller's stack its
\* pixels come from; px, for a mask, its foreground pixels as the caller
\* passed them; by, the transforms applied to those pixels since.  The
\* resampling of skimage's warp and rotate is not computed: a transformed
\* slice is the original slice together with the transform applied to it.

img_center_y == ImgRows \div 2
img_center_x == ImgCols \div 2

\* the translation and the orientation taken from reference_seg; the means
\* of np.nonzero are kept as fractions over the pixel count n.  from and
\* from_by record which slice the pose was read from.
PoseFrom(reference_seg, props) ==
    LET n == Cardinality(reference_seg.px)
    IN  [tx_n |-> 0 - (n * img_center_x - SumCoord(reference_seg.px, 2)),
         ty_n |-> 0 - (n * img_center_y - SumCoord(reference_seg.px, 1)),
         n |-> n,
         orientation_of |-> props.coords,
         from |-> reference_seg.at,
         from_by |-> Len(reference_seg.by)]

\* a variant that substitutes the identity pose when no object is found
PoseOfOrDefault(reference_seg) ==
    LET rps == RegionProps(reference_seg.px)
    IN  IF Len(rps) = 0
        THEN [raised |-> FALSE,
              pose |-> [tx_n |-> 0, ty_n |-> 0, n |-> 1, orientation_of |-> {},
                        from |-> reference_seg.at, from_by |-> Len(reference_seg.by)]]
        ELSE [raised |-> FALSE, pose |-> PoseFrom(reference_seg, rps[1])]

\* try: props = regionprops(label(reference_seg))[0]
\* except IndexError: raise ValueError(...)
PoseOf(reference_seg) ==
    LET rps == RegionProps(reference_seg.px)
    IN  IF Len(rps) = 0
        THEN [raised |-> TRUE,
              pose |-> [tx_n |-> 0, ty_n |-> 0, n |-> 1, orientation_of |-> {},
                        from |-> reference_seg.at, from_by |-> Len(reference_seg.by)]]
        ELSE [raised |-> FALSE, pose |-> PoseFrom(reference_seg, rps[1])]

\* rotate(img, tform, orientation, order): warp by the translation, then
\* rotate by pi/2 - orientation
rotate(img, pose, order) ==
    [img EXCEPT !.by = Append(@, [pose |-> pose, order |-> order])]

\* a variant that reads the reference from the working copy
ReferenceSegOfWorkingCopy(a, pr) == seg_rotated_stack[<<a, reference_wavelength, pr>>]

\* seg_images.isel(animal=img_idx).sel(wavelength=reference_wavelength, pair=pair)
ReferenceSeg(a, pr) == seg_images[<<a, reference_wavelength, pr>>]

NIter == NAnimals * Cardinality(Wavelengths) * NPairs

\* the slice visited by iteration k of
\* for img_idx: for wvl in wavelengths: for pair
IterSlice(k) ==
    LET i == k - 1
        NW == Len(wavelengths)
    IN  <<i \div (NW * NPairs), wavelengths[((i \div NPairs) % NW) + 1], i % NPairs>>

\* the entry of the function: the two copies are made
InitRot ==
    /\ IdleOutsideRot
    /\ fl_images = [s \in Slices |-> [at |-> s, by |-> <<>>]]
    /\ \E ref \in [Animals \X Pairs -> MaskChoices], other \in MaskChoices :
          /\ \A a \in Animals, pr \in Pairs : ref[<<a, pr>>] \in ReferenceChoices(a, pr)
          /\ seg_images =
              [s \in Slices |->
                  [at |-> s,
                   px |-> IF s[2] = reference_wavelength THEN ref[<<s[1], s[3]>>] ELSE other,
                   by |-> <<>>]]
    /\ wavelengths \in Orderings(Wavelengths)
    /\ fl_rotated_stack = fl_images
    /\ seg_rotated_stack = seg_images
    /\ rot_k = 0
    /\ rot_pc = "loop"
    /\ rot_out = <<>>

\* one iteration of the loop body that finds an object in the reference
RotateIteration ==
    /\ rot_pc = "loop"
    /\ rot_k < NIter
    /\ LET s == IterSlice(rot_k + 1)
           reference_seg == ReferenceSeg(s[1], s[3])
           img == fl_images[s]
           seg == seg_rotated_stack[s]
           found == PoseOf(reference_seg)
       IN  /\ ~found.raised
           /\ fl_rotated_stack' = [fl_rotated_stack EXCEPT ![s] = rotate(img, found.pose, 1)]
           /\ seg_rotated_stack' = [seg_rotated_stack EXCEPT ![s] = rotate(seg, found.pose, 0)]
    /\ rot_k' = rot_k + 1
    /\ UNCHANGED <<fl_images, seg_images, wavelengths, rot_pc, rot_out>>
    /\ UNCHANGED outsideRot

\* one iteration whose reference has no object: ValueError leaves the function
RotateRaise ==
    /\ rot_pc = "loop"
    /\ rot_k < NIter
    /\ LET s == IterSlice(rot_k + 1)
       IN  PoseOf(ReferenceSeg(s[1], s[3])).raised
    /\ rot_pc' = "raised"
    /\ UNCHANGED <<fl_images, seg_images, wavelengths, fl_rotated_stack,
                   seg_rotated_stack, rot_k, rot_out>>
    /\ UNCHANGED outsideRot

\* return fl_rotated_stack.astype(fl_images.dtype), seg_rotated_stack
RotateReturn ==
    /\ rot_pc = "loop"
    /\ rot_k = NIter
    /\ rot_out' = <<fl_rotated_stack, seg_rotated_stack>>
    /\ rot_pc' = "returned"
    /\ UNCHANGED <<fl_images, seg_images, wavelengths, fl_rotated_stack,
                   seg_rotated_stack, rot_k>>
    /\ UNCHANGED outsideRot

NextRot == RotateIteration \/ RotateRaise \/ RotateReturn

SpecRot == InitRot /\ [][NextRot]_vars

----------------------------------------------------------------------------
(* Claims about center_and_rotate_pharynxes *)

EmptyReference(a, pr) == seg_images[<<a, reference_wavelength, pr>>].px = {}

SomeEmptyReference == \E a \in Animals, pr \in Pairs : EmptyReference(a, pr)

Visited == {IterSlice(k) : k \in 1 .. rot_k}

\* C4: when the reference mask of some (animal, pair) has no foreground the
\* function never returns stacks, and no slice of an (animal, pair) with an
\* empty reference is ever given a transform: the loop raises on reaching it,
\* whichever channel it is processing
C4_EmptyReferenceRaises ==
    /\ (SomeEmptyReference => (rot_pc # "returned" /\ rot_out = <<>>))
    /\ \A s \in Slices :
          EmptyReference(s[1], s[3]) =>
              /\ s \notin Visited
              /\ fl_rotated_stack[s] = fl_images[s]
              /\ seg_rotated_stack[s] = seg_images[s]
    /\ (rot_pc = "loop" /\ rot_k < NIter
            /\ EmptyReference(IterSlice(rot_k + 1)[1], IterSlice(rot_k + 1)[3]))
          => (ENABLED RotateRaise /\ ~ENABLED RotateIteration)

\* a later animal's reference is empty, earlier slices were transformed, the
\* loop was in a channel other than the reference when it raised
C4_Witness ==
    /\ rot_pc = "raised"
    /\ rot_k > 0
    /\ IterSlice(rot_k + 1)[2] # reference_wavelength
    /\ EmptyReference(IterSlice(rot_k + 1)[1], IterSlice(rot_k + 1)[3])

\* the pose of the caller's reference mask of (animal, pair)
ExpectedPose(a, pr) == PoseFrom(seg_images[<<a, reference_wavelength, pr>>],
                                RegionProps(seg_images[<<a, reference_wavelength, pr>>].px)[1])

----------------------------------------------------------------------------
(* measure_under_midline *)

\* The lengths of the model are multiples of 1 / (2 * ThickDen), so that
\* mag = thickness / 2 is a whole number of units.
Unit == 2 * ThickDen

\* The direction of the normal at a point of the curve, (cos t, sin t) for
\* t = arctan(-1 / der(x)), t in [-pi/2, pi/2]: the cosine is never negative
NormalDirs == {<<1, 0>>, <<1, 1>>, <<0, 1>>, <<1, -1>>, <<0, -1>>}

\* A curve is represented by what the sampler reads of it: for the i-th of
\* the evenly spaced parameter values, its y and the direction of its normal
CurvePoints == [y : 0 .. 1, dir : NormalDirs]

Midlines(n) ==
    {[kind |-> "None", pts |-> <<>>]} \cup
    {[kind |-> "Polynomial", pts |-> c] : c \in [1 .. n -> CurvePoints]}

\* thickness is a Python int (float = FALSE) or a Python float
Thicknesses ==
    {t \in [num : 0 .. MaxThickNum, float : BOOLEAN] : ~t.float => t.num % ThickDen = 0}

\* xs, ys = mid.linspace(n=n_points), in units
LinspaceX(m, n) == [i \in 1 .. n |-> (i - 1) * Unit]
LinspaceY(m, n) == [i \in 1 .. n |-> m.pts[i].y * Unit]

\* mag = thickness / 2; x0 = cos(normal_thetas) * mag, y0 = sin(...) * mag,
\* x1 and y1 the same with -mag
NormalX(m, n, t, sign) == [i \in 1 .. n |-> sign * m.pts[i].dir[1] * t.num]
NormalY(m, n, t, sign) == [i \in 1 .. n |-> sign * m.pts[i].dir[2] * t.num]

AddSeq(a, b) == [i \in 1 .. Len(a) |-> a[i] + b[i]]

\* a variant that swaps the y coordinates only
SwapOnlyY(segs, i) ==
    IF segs.ys0[i] < segs.ys1[i]
    THEN [segs EXCEPT !.ys0[i] = segs.ys1[i], !.ys1[i] = segs.ys0[i]]
    ELSE segs

\* the body of the swap loop at index i:
\* if y0 < y1: xs0[i], xs1[i] = xs1[i], xs0[i]; ys0[i], ys1[i] = ys1[i], ys0[i]
SwapAt(segs, i) ==
    IF segs.ys0[i] < segs.ys1[i]
    THEN [segs EXCEPT !.xs0[i] = segs.xs1[i], !.xs1[i] = segs.xs0[i],
                      !.ys0[i] = segs.ys1[i], !.ys1[i] = segs.ys0[i]]
    ELSE segs

\* np.linspace(xs0, xs1, n_line_pts) with n_line_pts = thickness: the sample
\* count must be an integer.  A Python int is taken as it is.  For a float,
\* numpy 1.12 to 1.17 warns and uses int(num); numpy 1.18 and later raise
\* TypeError.
LineCount(t, np_behaviour) ==
    IF ~t.float THEN [raised |-> FALSE, n |-> t.num \div ThickDen]
    ELSE IF np_behaviour = "int" THEN [raised |-> FALSE, n |-> t.num \div ThickDen]
    ELSE [raised |-> TRUE, n |-> 0]

\* except: return np.zeros((1, n_points))
Fallback(n) == [kind |-> "zeros", shape |-> <<1, n>>, n_line_pts |-> 0, raised |-> FALSE]

\* the result of map_coordinates, and of np.average over axis 0
Measured(shape, count) ==
    [kind |-> "measured", shape |-> shape, n_line_pts |-> count, raised |-> FALSE]

InitSamp ==
    /\ IdleOutsideSamp
    /\ n_points \in 1 .. MaxPoints
    /\ mid \in Midlines(n_points)
    /\ thickness \in Thicknesses
    /\ flatten \in BOOLEAN
    /\ np_float_num \in {"int", "TypeError"}
    /\ xs0 = <<>> /\ xs1 = <<>> /\ ys0 = <<>> /\ ys1 = <<>>
    /\ swap_i = 0
    /\ samp_pc = "start"
    /\ samp_result = NoProfile

\* mid.linspace on None raises AttributeError, in both modes
MeasureNullMidline ==
    /\ samp_pc = "start"
    /\ mid.kind = "None"
    /\ samp_result' = Fallback(n_points)
    /\ samp_pc' = "done"
    /\ UNCHANGED <<mid, n_points, thickness, flatten, np_float_num, xs0, xs1, ys0, ys1, swap_i>>
    /\ UNCHANGED outsideSamp

\* if thickness == 0: return ndi.map_coordinates(fl, np.stack([xs, ys]), order=1)
MeasureZeroThickness ==
    /\ samp_pc = "start"
    /\ mid.kind = "Polynomial"
    /\ thickness.num = 0
    /\ samp_result' = Measured(<<Len(LinspaceX(mid, n_points))>>, 0)
    /\ samp_pc' = "done"
    /\ UNCHANGED <<mid, n_points, thickness, flatten, np_float_num, xs0, xs1, ys0, ys1, swap_i>>
    /\ UNCHANGED outsideSamp

\* else: the endpoints of the normal segments
MeasureNormals ==
    /\ samp_pc = "start"
    /\ mid.kind = "Polynomial"
    /\ thickness.num # 0
    /\ xs0' = AddSeq(LinspaceX(mid, n_points), NormalX(mid, n_points, thickness, 1))
    /\ xs1' = AddSeq(LinspaceX(mid, n_points), NormalX(mid, n_points, thickness, -1))
    /\ ys0' = AddSeq(LinspaceY(mid, n_points), NormalY(mid, n_points, thickness, 1))
    /\ ys1' = AddSeq(LinspaceY(mid, n_points), NormalY(mid, n_points, thickness, -1))
    /\ swap_i' = 1
    /\ samp_pc' = "swap"
    /\ UNCHANGED <<mid, n_points, thickness, flatten, np_float_num, samp_result>>
    /\ UNCHANGED outsideSamp

\* one iteration of: for y0, y1, x0, x1, i in zip(ys0, ys1, xs0, xs1, range(len(xs0)))
SwapStep ==
    /\ samp_pc = "swap"
    /\ swap_i <= Len(xs0)
    /\ LET segs == SwapAt([xs0 |-> xs0, xs1 |-> xs1, ys0 |-> ys0, ys1 |-> ys1], swap_i)
       IN  /\ xs0' = segs.xs0
           /\ xs1' = segs.xs1
           /\ ys0' = segs.ys0
           /\ ys1' = segs.ys1
    /\ swap_i' = swap_i + 1
    /\ UNCHANGED <<mid, n_points, thickness, flatten, np_float_num, samp_pc, samp_result>>
    /\ UNCHANGED outsideSamp

\* the loop is exhausted
SwapDone ==
    /\ samp_pc = "swap"
    /\ swap_i > Len(xs0)
    /\ samp_pc' = "band"
    /\ UNCHANGED <<mid, n_points, thickness, flatten, np_float_num,
                   xs0, xs1, ys0, ys1, swap_i, samp_result>>
    /\ UNCHANGED outsideSamp

\* n_line_pts = thickness; all_xs, all_ys = np.linspace(...); straightened =
\* map_coordinates(fl, [all_xs, all_ys]); then the weighted average over
\* axis 0 if flatten (np.average raises ZeroDivisionError when the weights
\* sum to zero, as they do for no rows), else the band itself
MeasureBand ==
    /\ samp_pc = "band"
    /\ LET cnt == LineCount(thickness, np_float_num)
       IN  samp_result' =
              IF cnt.raised THEN Fallback(n_points)
              ELSE IF flatten
                   THEN IF cnt.n = 0 THEN Fallback(n_points)
                        ELSE Measured(<<Len(xs0)>>, cnt.n)
                   ELSE Measured(<<cnt.n, Len(xs0)>>, cnt.n)
    /\ samp_pc' = "done"
    /\ UNCHANGED <<mid, n_points, thickness, flatten, np_float_num, xs0, xs1, ys0, ys1, swap_i>>
    /\ UNCHANGED outsideSamp

NextSamp ==
    \/ MeasureNullMidline
    \/ MeasureZeroThickness
    \/ MeasureNormals
    \/ SwapStep
    \/ SwapDone
    \/ MeasureBand

SpecSamp == InitSamp /\ [][NextSamp]_vars

----------------------------------------------------------------------------
(* Claims about measure_under_midline *)

\* C3: whenever sampling fails, a null midline included, nothing is raised
\* and the result is an all-zero profile shaped like a successful profile:
\* one dimension of n_points elements
C3_FallbackIsProfileShaped ==
    (samp_pc = "done" /\ samp_result.kind # "measured") =>
        /\ ~samp_result.raised
        /\ samp_result.kind = "zeros"
        /\ samp_result.shape = <<n_points>>

\* the endpoints of segment i as they were before the swap loop
Endpoints0(i) ==
    {<<LinspaceX(mid, n_points)[i] + NormalX(mid, n_points, thickness, 1)[i],
       LinspaceY(mid, n_points)[i] + NormalY(mid, n_points, thickness, 1)[i]>>,
     <<LinspaceX(mid, n_points)[i] + NormalX(mid, n_points, thickness, -1)[i],
       LinspaceY(mid, n_points)[i] + NormalY(mid, n_points, thickness, -1)[i]>>}

\* C6: in nonzero-thickness mode, after the swap loop, each of the n_points
\* segments has ys0 >= ys1 and still joins its two original endpoints
C6_SegmentsOrdered ==
    samp_pc \in {"swap", "band"} =>
        /\ Len(xs0) = n_points
        /\ \A i \in 1 .. n_points :
              /\ (i < swap_i => ys0[i] >= ys1[i])
              /\ {<<xs0[i], ys0[i]>>, <<xs1[i], ys1[i]>>} = Endpoints0(i)

\* the loop is over, one segment was swapped, another was left as it was
C6_Witness ==
    /\ samp_pc = "band"
    /\ \E i, j \in 1 .. n_points :
          /\ xs0[i] < xs1[i] /\ ys0[i] > ys1[i]
          /\ xs0[j] > xs1[j] /\ ys0[j] > ys1[j]

Elements(shape) == IF Len(shape) = 1 THEN shape[1] ELSE shape[1] * shape[2]

\* the row counts a thickness of num / ThickDen may stand for: rounded down,
\* to the nearest, or up
RowCounts(t) ==
    {t.num \div ThickDen, (2 * t.num + ThickDen) \div (2 * ThickDen),
     (t.num + ThickDen - 1) \div ThickDen}

\* C7: the result has n_points elements in zero-thickness mode and in
\* nonzero-thickness mode with flatten, and the shape (row count derived
\* from thickness, n_points) in nonzero-thickness mode without flatten
C7_ResultShape ==
    samp_pc = "done" =>
        /\ (thickness.num = 0 \/ flatten) => Elements(samp_result.shape) = n_points
        /\ (thickness.num # 0 /\ ~flatten) =>
              \E r \in RowCounts(thickness) : samp_result.shape = <<r, n_points>>

\* C8: in nonzero-thickness mode every thickness of at least 1, whole or
\* not, Python int or float, gives a measured profile whose segments are
\* sampled at thickness rounded to the nearest integer
C8_ThicknessRounded ==
    (samp_pc = "done" /\ mid.kind = "Polynomial" /\ thickness.num >= ThickDen) =>
        /\ samp_result.kind = "measured"
        /\ 2 * ThickDen * samp_result.n_line_pts >= 2 * thickness.num - ThickDen
        /\ 2 * ThickDen * samp_result.n_line_pts <= 2 * thickness.num + ThickDen

----------------------------------------------------------------------------
(* measure_under_midlines *)

\* the channels a stack of the model may hold: the two the function names,
\* one more fluorescence channel, and transmitted light
BatchChannels == {"410", "470", "560", "TL"}

BatchSlices == Animals \X batch_wavelengths \X Pairs

\* measure_under_midline(fl_stack[s], midlines[s], n_points=..., thickness=0):
\* the profile of the image of slice s under midline m
ProfileUnder(s, m) ==
    [img |-> s,
     under |-> m,
     data |-> IF m.kind = "None" THEN Fallback(MaxPoints) ELSE Measured(<<MaxPoints>>, 0)]

\* midlines.loc[dict(wavelength="470")] = midlines.sel(wavelength="410")
BroadcastReference(ms) ==
    [s \in DOMAIN ms |-> IF s[2] = "470" THEN ms[<<s[1], "410", s[3]>>] ELSE ms[s]]

InitBatch ==
    /\ IdleOutsideBatch
    /\ batch_wavelengths \in (SUBSET BatchChannels) \ {{}}
    /\ frame_specific \in BOOLEAN
    /\ \E absent \in SUBSET batch_wavelengths :
          midlines_arg =
              [s \in BatchSlices |->
                  [kind |-> IF s[2] \in absent THEN "None" ELSE "Polynomial", fit_on |-> s]]
    /\ midlines = midlines_arg
    /\ measurements = <<>>
    /\ batch_pc = "start"

\* if not frame_specific: the 470 midlines are overwritten in the array
BatchBroadcast ==
    /\ batch_pc = "start"
    /\ ~frame_specific
    /\ {"410", "470"} \subseteq batch_wavelengths
    /\ midlines' = BroadcastReference(midlines)
    /\ batch_pc' = "measure"
    /\ UNCHANGED <<batch_wavelengths, frame_specific, midlines_arg, measurements>>
    /\ UNCHANGED outsideBatch

\* .sel and .loc raise KeyError for a wavelength the array does not have
BatchKeyError ==
    /\ batch_pc = "start"
    /\ ~frame_specific
    /\ ~({"410", "470"} \subseteq batch_wavelengths)
    /\ batch_pc' = "raised"
    /\ UNCHANGED <<batch_wavelengths, frame_specific, midlines_arg, midlines, measurements>>
    /\ UNCHANGED outsideBatch

\* frame_specific: the array is used as it is
BatchFrameSpecific ==
    /\ batch_pc = "start"
    /\ frame_specific
    /\ batch_pc' = "measure"
    /\ UNCHANGED <<batch_wavelengths, frame_specific, midlines_arg, midlines, measurements>>
    /\ UNCHANGED outsideBatch

\* measurements = xr.apply_ufunc(measure_under_midline, fl_stack, midlines, ...)
BatchMeasure ==
    /\ batch_pc = "measure"
    /\ measurements' = [s \in BatchSlices |-> ProfileUnder(s, midlines[s])]
    /\ batch_pc' = "done"
    /\ UNCHANGED <<batch_wavelengths, frame_specific, midlines_arg, midlines>>
    /\ UNCHANGED outsideBatch

NextBatch == BatchBroadcast \/ BatchKeyError \/ BatchFrameSpecific \/ BatchMeasure

SpecBatch == InitBatch /\ [][NextBatch]_vars

----------------------------------------------------------------------------
(* Claims about measure_under_midlines *)

\* the channels that are measured: the fluorescence channels of the stack
MeasurementChannels == batch_wavelengths \ {"TL"}

\* C9: with frame_specific = false every measurement channel of every
\* (animal, pair) is sampled under the midline the caller passed for the
\* reference channel 410 of that animal and pair; with frame_specific = true
\* every channel is sampled under its own midline
C9_ReferenceMidlineForEveryChannel ==
    batch_pc = "done" =>
        \A s \in BatchSlices :
            /\ (~frame_specific /\ s[2] \in MeasurementChannels) =>
                  measurements[s].under = midlines_arg[<<s[1], "410", s[3]>>]
            /\ frame_specific => measurements[s].under = midlines_arg[s]

----------------------------------------------------------------------------
(* The profile normalisers: normalize_images_single_wvl and                *)
(* normalize_images_by_wvl_pair                                            *)

MinInt(a, b) == IF a < b THEN a ELSE b
MaxInt(a, b) == IF a < b THEN b ELSE a

\* the indices 0 .. len - 1 that the Python slice [start:stop] selects: a
\* negative bound counts from the end, and both are clipped to the sequence
PySlice(len, start, stop) ==
    LET lo == IF start < 0 THEN MaxInt(start + len, 0) ELSE MinInt(start, len)
        hi == IF stop < 0 THEN MaxInt(stop + len, 0) ELSE MinInt(stop, len)
    IN  {k \in 0 .. len - 1 : lo <= k /\ k < hi}

\* idx_to_clip = int(profiles.shape[-1] * percent_to_clip / 100)
idx_to_clip(n, pct) == (n * pct) \div 100

\* what [idx_to_clip:-idx_to_clip] selects of an axis of length len
Clipped(len, n, pct) == PySlice(len, idx_to_clip(n, pct), 0 - idx_to_clip(n, pct))

\* numpy's broadcasting of an array whose last axis has length last against
\* the per-frame vector of length frames
Broadcasts(last, frames) == last = frames \/ last = 1 \/ frames = 1

\* the statements of normalize_images_single_wvl, in order
SingleWvlSteps ==
    <<"ndim", "copy", "clip", "mean", "centre_profiles", "centre_images",
      "min", "max", "rescale">>

\* the length of the last axis after an array whose last axis has length
\* last is combined with the per-frame vector of length frames
BroadcastLen(kind, last, frames) ==
    IF kind = "ndarray" /\ frames > last THEN frames ELSE last

\* the element of a per-frame vector that is combined with the element at
\* frame f and index j of the last axis: numpy pairs the vector with the
\* last axis, xarray with the dimension of the same name
VectorIndex(kind, f, j, frames) ==
    IF kind = "DataArray" THEN f ELSE IF frames = 1 THEN 0 ELSE j

\* the profile rows that enter row k of profiles - prof_means, and so
\* prof_mins[k] and prof_maxs[k]; prof_means[k] is the mean of row k
CentredRows(kind, k, frames, width) ==
    {k} \cup {VectorIndex(kind, k, w, frames) :
                 w \in 0 .. BroadcastLen(kind, width, frames) - 1}

\* for every pixel <<f, j>> of the result (rows behave alike and are left
\* out): the input pixel it is computed from and the profile rows whose
\* statistics enter it
SingleWvlDeps(kind, frames, cols, width) ==
    [px \in (0 .. frames - 1) \X (0 .. BroadcastLen(kind, cols, frames) - 1) |->
        LET v == VectorIndex(kind, px[1], px[2], frames)
        IN  [frame |-> px[1],
             col |-> IF cols = 1 THEN 0 ELSE px[2],
             stats |-> {v} \cup CentredRows(kind, v, frames, width)]]

normalize_images_single_wvl_unchecked(kind, fl_nd, prof_nd, frames, cols, n, pct) ==
    [outcome |-> "ValueError", steps |-> SubSeq(SingleWvlSteps, 1, 5),
     window |-> Clipped(n, n, pct), normalized |-> {}, deps |-> <<>>]
\* normalize_images_single_wvl on arrays of fl_nd and prof_nd dimensions, of
\* shape (frames, rows, cols) and (frames, positions) when these are 3 and 2.
\* The dimensions are checked first.  The statistics are taken over
\* profiles[:, idx_to_clip:-idx_to_clip].  np.mean of no positions warns and
\* gives nan; np.min of no positions raises ValueError.  With ndarrays the
\* per-frame vector is combined along the last axis, which raises
\* ValueError when the lengths do not broadcast; with DataArrays xarray
\* aligns it with the frame dimension.
normalize_images_single_wvl(kind, fl_nd, prof_nd, frames, cols, n, pct) ==
    LET window == Clipped(n, n, pct)
        width == Cardinality(window)
        raised(k) == [outcome |-> "ValueError", steps |-> SubSeq(SingleWvlSteps, 1, k),
                      window |-> window, normalized |-> {}, deps |-> <<>>]
    IN  IF fl_nd # 3 \/ prof_nd # 2
        THEN [outcome |-> "ValueError", steps |-> SubSeq(SingleWvlSteps, 1, 1),
              window |-> {}, normalized |-> {}, deps |-> <<>>]
        ELSE IF kind = "ndarray" /\ ~Broadcasts(width, frames) THEN raised(5)
        ELSE IF kind = "ndarray" /\ ~Broadcasts(cols, frames) THEN raised(6)
        ELSE IF window = {} THEN raised(7)
        ELSE [outcome |-> "returned", steps |-> SingleWvlSteps,
              window |-> window, normalized |-> {"single_wvl"},
              deps |-> SingleWvlDeps(kind, frames, cols, width)]

\* normalize_images_by_wvl_pair on the profiles measure_under_midlines
\* returns, of dimensions (animal, wavelength, pair, position):
\* profiles[:, idx_to_clip:-idx_to_clip] slices the second dimension, the
\* wavelengths; a wavelength that is no longer in profiles is skipped; the
\* statistics of the others are taken over all the positions of prof, the
\* profile selected by the wavelength, the pair and the animal of the image.
\* deps describes the images of one normalised wavelength and pair.
normalize_images_by_wvl_pair(wvls, frames, cols, n, pct) ==
    LET kept == {wvls[k + 1] : k \in Clipped(Len(wvls), n, pct)}
    IN  [outcome |-> "returned",
         steps |-> <<"clip", "copy", "loop">>,
         window |-> IF kept = {} THEN {} ELSE 0 .. n - 1,
         normalized |-> kept,
         deps |-> IF kept = {} THEN <<>>
                  ELSE [px \in (0 .. frames - 1) \X (0 .. cols - 1) |->
                           [frame |-> px[1], col |-> px[2], stats |-> {px[1]}]]]

\* the numbers of dimensions the arguments are drawn from
FlNdims == {2, 3, 4}
ProfNdims == {1, 2, 3}

InitNorm ==
    /\ IdleOutsideNorm
    /\ norm_fn \in {"single_wvl", "by_wvl_pair"}
    /\ array_kind \in {"ndarray", "DataArray"}
    /\ norm_fn = "by_wvl_pair" => array_kind = "DataArray"
    /\ fl_ndim \in IF norm_fn = "by_wvl_pair" THEN {5} ELSE FlNdims
    /\ prof_ndim \in IF norm_fn = "by_wvl_pair" THEN {4} ELSE ProfNdims
    /\ n_frames \in 1 .. NAnimals
    /\ n_cols \in 1 .. ImgCols
    /\ n_pos \in 1 .. MaxPos
    /\ percent_to_clip \in 0 .. MaxPercent
    /\ norm_wavelengths \in
          IF norm_fn = "by_wvl_pair" THEN Orderings(Wavelengths) ELSE {<<>>}
    /\ norm_pc = "call"
    /\ norm_result = NoNormResult

CallNormalizeSingleWvl ==
    /\ norm_pc = "call"
    /\ norm_fn = "single_wvl"
    /\ norm_result' =
          normalize_images_single_wvl(array_kind, fl_ndim, prof_ndim, n_frames,
                                      n_cols, n_pos, percent_to_clip)
    /\ norm_pc' = "done"
    /\ UNCHANGED <<norm_fn, array_kind, fl_ndim, prof_ndim, n_frames, n_cols,
                   n_pos, percent_to_clip, norm_wavelengths>>
    /\ UNCHANGED outsideNorm

CallNormalizeByWvlPair ==
    /\ norm_pc = "call"
    /\ norm_fn = "by_wvl_pair"
    /\ norm_result' = normalize_images_by_wvl_pair(norm_wavelengths, n_frames, n_cols, n_pos,
                                                      percent_to_clip)
    /\ norm_pc' = "done"
    /\ UNCHANGED <<norm_fn, array_kind, fl_ndim, prof_ndim, n_frames, n_cols,
                   n_pos, percent_to_clip, norm_wavelengths>>
    /\ UNCHANGED outsideNorm

\* the arguments have the numbers of dimensions the functions document
ValidShapes == norm_fn = "single_wvl" => (fl_ndim = 3 /\ prof_ndim = 2)

NextNorm == CallNormalizeSingleWvl \/ CallNormalizeByWvlPair

SpecNorm == InitNorm /\ [][NextNorm]_vars

----------------------------------------------------------------------------
(* Claims about the profile normalisers *)

\* C10: with clip_percent = 0 both normalisers return, having taken mean,
\* min and max over all the positions of the profile (and, by wavelength and
\* pair, having normalised every wavelength of the profiles)
C10_NoClipUsesWholeProfile ==
    (norm_pc = "done" /\ ValidShapes /\ percent_to_clip = 0) =>
        /\ norm_result.outcome = "returned"
        /\ norm_result.window = 0 .. n_pos - 1
        /\ norm_fn = "by_wvl_pair" =>
              norm_result.normalized = {norm_wavelengths[k] : k \in 1 .. Len(norm_wavelengths)}

\* the positions the statistics are taken over when the call of the state is
\* made with the clip percentage p instead
WindowWith(p) ==
    IF norm_fn = "single_wvl"
    THEN normalize_images_single_wvl(array_kind, fl_ndim, prof_ndim, n_frames,
                                     n_cols, n_pos, p).window
    ELSE normalize_images_by_wvl_pair(norm_wavelengths, n_frames, n_cols, n_pos, p).window

\* C11: for every profile length and clip percentages p1 <= p2, from 0 on,
\* the positions used for mean, min and max with p2 are among the positions
\* used with p1
C11_WindowNarrows ==
    (norm_pc = "done" /\ ValidShapes) =>
        \A p1 \in 0 .. percent_to_clip : norm_result.window \subseteq WindowWith(p1)

\* C12: the normalisers remove the integer part of n * clip_percent / 200
\* samples from each end of a profile of length n, clip_percent of the
\* profile in total, before taking mean, min and max (stated for the
\* percentages for which that count is at least one)
C12_HalfPercentEachEnd ==
    (norm_pc = "done" /\ ValidShapes /\ (n_pos * percent_to_clip) \div 200 >= 1) =>
        LET trim == (n_pos * percent_to_clip) \div 200
        IN  norm_result.window = {k \in 0 .. n_pos - 1 : trim <= k /\ k < n_pos - trim}

\* C13: when the image array is not 3-dimensional or the profile array is not
\* 2-dimensional, normalize_images_single_wvl raises before it copies or
\* computes anything, and returns no result
C13_InvalidShapeRaisesFirst ==
    (norm_pc = "done" /\ norm_fn = "single_wvl" /\ ~ValidShapes) =>
        /\ norm_result.outcome = "ValueError"
        /\ norm_result.steps = <<"ndim">>
        /\ norm_result.normalized = {}
        /\ norm_result.deps = <<>>

C13_Witness ==
    /\ norm_pc = "done"
    /\ norm_fn = "single_wvl"
    /\ fl_ndim = 3
    /\ prof_ndim = 3
    /\ norm_result.outcome = "ValueError"
    /\ norm_result.steps = <<"ndim">>

\* C18: every pixel of frame i of a normaliser's result is computed from the
\* same pixel of input frame i and from the mean, min and max of profile
\* row i only, whatever the numbers of frames, columns and positions
C18_OwnProfileOnly ==
    (norm_pc = "done" /\ norm_result.outcome = "returned" /\ norm_result.normalized # {}) =>
        /\ DOMAIN norm_result.deps = (0 .. n_frames - 1) \X (0 .. n_cols - 1)
        /\ \A px \in DOMAIN norm_result.deps :
              /\ norm_result.deps[px].frame = px[1]
              /\ norm_result.deps[px].col = px[2]
              /\ norm_result.deps[px].stats = {px[1]}

----------------------------------------------------------------------------
(* Claims about the arrays of the caller *)

\* C15: no core stage writes into the arrays its caller passes in; stated for
\* measure_under_midlines: when it has returned or raised, for either value
\* of frame_specific, the caller's midline array is as it was at the call
C15_CallerMidlinesUnchanged ==
    batch_pc \in {"done", "raised"} => midlines = midlines_arg

----------------------------------------------------------------------------
(* Claims about masks with several objects *)

\* C16: of a mask with several disjoint objects the core uses the largest:
\* extract_largest_binary_object returns exactly the pixels of an object
\* that no other object exceeds in pixel count, and calculate_midline fits
\* the curve to the coordinates of that object and ends its domain at that
\* object's right bound (plus the padding)
C16_LargestObjectUsed ==
    (mid_pc = "done" /\ Len(Label(rot_seg_img)) >= 2) =>
        LET objs == Label(rot_seg_img)
            largest == extract_largest_binary_object(rot_seg_img)
        IN  /\ \E k \in 1 .. Len(objs) : objs[k] = largest
            /\ \A k \in 1 .. Len(objs) : Cardinality(objs[k]) <= Cardinality(largest)
            /\ mid_result.kind = "Polynomial"
            /\ mid_result.xy = {<<p[2], p[1]>> : p \in largest}
            /\ mid_result.hi = MaxOf(Cols(largest)) + 1 + pad

----------------------------------------------------------------------------
(* segment_pharynx: the search for a threshold *)

target_area == 450
area_range == 100
min_area == target_area - area_range
max_area == target_area + area_range
max_iter == 300

\* p, in hundredths of the image's maximum: p = 0.15 at the start, and the
\* guard p > 0.9.  The float p moves in steps of 0.01; the model counts the
\* steps and takes the masks of equal counts to be equal.
p_start == 15
p_max == 90

\* how far from p_start the area of an image of the model changes
MaxCutDist == 2

\* regionprops(label(S))[0].area, and 0 when S has no object
get_area_of_largest_object(S) ==
    LET rps == RegionProps(S)
    IN  IF Len(rps) = 0 THEN 0 ELSE rps[1].area

\* The areas an image's masks are drawn from: below, at the ends of, and
\* above the accepted range.  A mask of an image that is not all dark holds
\* the brightest pixel for every p < 1, so its area is at least 1.
AreaChoices == {1, min_area - 1, min_area, max_area, max_area + 1}

\* An image is given by the area get_area_of_largest_object measures on
\* fl_img > fl_img.max() * p for each p: one of three levels, changing at
\* two cuts near p_start; or the all-dark image, whose masks are empty.
AreaProfiles ==
    {[levels |-> <<0, 0, 0>>, cuts |-> <<p_start, p_start>>]} \cup
    {[levels |-> <<a1, a2, a3>>, cuts |-> <<c1, c2>>] :
        a1 \in AreaChoices, a2 \in AreaChoices, a3 \in AreaChoices,
        c1 \in p_start - MaxCutDist .. p_start + MaxCutDist,
        c2 \in p_start - MaxCutDist .. p_start + MaxCutDist}

AreaFn(img) ==
    [p \in 0 .. p_max |->
        IF p < img.cuts[1] THEN img.levels[1]
        ELSE IF p < img.cuts[2] THEN img.levels[2]
        ELSE img.levels[3]]

\* while (min_area > area) or (area > max_area)
WhileTest(area) == min_area > area \/ area > max_area

NextP_drift(p, area) == IF area < min_area THEN p - 1 ELSE p + 1
\* if area > max_area: p = p + 0.01;  if area < min_area: p = p - 0.01
NextP(p, area) ==
    IF area > max_area THEN p + 1
    ELSE IF area < min_area THEN p - 1
    ELSE p

\* the state after p = 0.15; S = fl_img > t; area = ...; i = 0.  mask_p is
\* the p at which the mask S was taken; f gives the area measured at each p.
SearchStart(f) ==
    [pc |-> "while", exit |-> "none", p |-> p_start, i |-> 0,
     area |-> f[p_start], mask_p |-> p_start]

\* the test of the while loop and, when it holds, one run of its body: the
\* cap on i, the area of the current S, the change of p, the new S, and the
\* two guards on p, which return the mask of p = 0.15
SearchStep(f, st) ==
    IF ~WhileTest(st.area)
    THEN [st EXCEPT !.pc = "returned", !.exit = "normal"]
    ELSE IF st.i >= max_iter
    THEN [st EXCEPT !.pc = "returned", !.exit = "max_iter"]
    ELSE LET area == f[st.mask_p]
             p == NextP(st.p, area)
         IN  IF p < 0
             THEN [pc |-> "returned", exit |-> "p_low", p |-> p, i |-> st.i + 1,
                   area |-> area, mask_p |-> p_start]
             ELSE IF p > p_max
             THEN [pc |-> "returned", exit |-> "p_high", p |-> p, i |-> st.i + 1,
                   area |-> area, mask_p |-> p_start]
             ELSE [pc |-> "while", exit |-> "none", p |-> p, i |-> st.i + 1,
                   area |-> area, mask_p |-> p]

InitSeg ==
    /\ IdleOutsideSeg
    /\ area_profile \in AreaProfiles
    /\ tl_channel \in BOOLEAN
    /\ search = [NoSearch EXCEPT !.pc = "call"]

\* if "tl" in seg.wavelength.values[()].lower(): seg[:] = 0; return seg
SegmentTL ==
    /\ search.pc = "call"
    /\ tl_channel
    /\ search' = [search EXCEPT !.pc = "returned", !.exit = "tl"]
    /\ UNCHANGED <<area_profile, tl_channel>>
    /\ UNCHANGED outsideSeg

SegmentStart ==
    /\ search.pc = "call"
    /\ ~tl_channel
    /\ search' = SearchStart(AreaFn(area_profile))
    /\ UNCHANGED <<area_profile, tl_channel>>
    /\ UNCHANGED outsideSeg

\* one run of the loop body that stays in the loop
SearchIteration ==
    /\ search.pc = "while"
    /\ SearchStep(AreaFn(area_profile), search).pc = "while"
    /\ search' = SearchStep(AreaFn(area_profile), search)
    /\ UNCHANGED <<area_profile, tl_channel>>
    /\ UNCHANGED outsideSeg

\* the loop test fails: return S
SearchReturnNormal ==
    /\ search.pc = "while"
    /\ SearchStep(AreaFn(area_profile), search).exit = "normal"
    /\ search' = SearchStep(AreaFn(area_profile), search)
    /\ UNCHANGED <<area_profile, tl_channel>>
    /\ UNCHANGED outsideSeg

\* if i >= max_iter: return S
SearchReturnCap ==
    /\ search.pc = "while"
    /\ SearchStep(AreaFn(area_profile), search).exit = "max_iter"
    /\ search' = SearchStep(AreaFn(area_profile), search)
    /\ UNCHANGED <<area_profile, tl_channel>>
    /\ UNCHANGED outsideSeg

\* if p < 0 / if p > 0.9: return fl_img > (fl_img.max() * 0.15)
SearchReturnGuard ==
    /\ search.pc = "while"
    /\ SearchStep(AreaFn(area_profile), search).exit \in {"p_low", "p_high"}
    /\ search' = SearchStep(AreaFn(area_profile), search)
    /\ UNCHANGED <<area_profile, tl_channel>>
    /\ UNCHANGED outsideSeg

NextSeg ==
    \/ SegmentTL
    \/ SegmentStart
    \/ SearchIteration
    \/ SearchReturnNormal
    \/ SearchReturnCap
    \/ SearchReturnGuard

SpecSeg == InitSeg /\ [][NextSeg]_vars

\* a running call keeps executing its statements
SpecSegFair == SpecSeg /\ WF_vars(NextSeg)

----------------------------------------------------------------------------
(* Claims about segment_pharynx *)

\* C17: the threshold search of segment_pharynx ends after at most
\* max_iter = 300 runs of the loop body, and when it leaves through the
\* loop test (not through the cap on i or the guards on p) the area
\* measured on the mask it returns is between 350 and 550
C17_SearchEndsInRange ==
    /\ [](/\ search.i <= max_iter
          /\ (search.pc = "returned" /\ search.exit = "normal") =>
                LET area == AreaFn(area_profile)[search.mask_p]
                IN  min_area <= area /\ area <= max_area)
    /\ <>(search.pc = "returned")

C17_Witness ==
    /\ search.pc = "returned"
    /\ search.exit = "normal"
    /\ search.i >= 2
    /\ search.mask_p # p_start

----------------------------------------------------------------------------
(* The pipeline segment_pharynxes, center_and_rotate_pharynxes,            *)
(* calculate_midlines                                                      *)

\* str.lower() on the wavelength names of the model
Lower(wvl) == IF wvl = "TL" THEN "tl" ELSE wvl

Uniform(v) == [p \in Pixels |-> v]

\* the fluorescence images of the model: all dark; a bright pixel on a dim
\* background; two bright objects, of one and of two pixels
FlImageChoices ==
    {Uniform(0),
     [p \in Pixels |-> IF p = <<0, 0>> THEN 10 ELSE 1],
     [p \in Pixels |-> IF p \in {<<0, 0>>, <<0, 2>>, <<1, 2>>} THEN 10 ELSE 0]}

\* the transmitted-light images of the model: all dark, and lit everywhere
TLImageChoices == {Uniform(0), [p \in Pixels |-> IF p = <<0, 0>> THEN 10 ELSE 5]}

Nonzero(img) == {p \in Pixels : img[p] # 0}

\* fl_img > fl_img.max() * p, with p in hundredths
Threshold(fl_img, p) ==
    {px \in Pixels : 100 * fl_img[px] > MaxOf({fl_img[q] : q \in Pixels}) * p}

ImageAreaFn(fl_img) ==
    [p \in 0 .. p_max |-> get_area_of_largest_object(Threshold(fl_img, p))]

RECURSIVE RunSearch(_, _)
RunSearch(f, st) == IF st.pc = "returned" THEN st ELSE RunSearch(f, SearchStep(f, st))

\* segment_pharynx of one image: the empty mask for the TL channel, else the
\* mask the threshold search returns
segment_pharynx(wvl, fl_img) ==
    IF Lower(wvl) = "tl"
    THEN {}
    ELSE LET f == ImageAreaFn(fl_img)
         IN  Threshold(fl_img, RunSearch(f, SearchStart(f)).mask_p)

\* a mask as an image
MaskImage(S) == [p \in Pixels |-> IF p \in S THEN 1 ELSE 0]

\* seg = fl_stack.copy(); a TL slice is skipped by continue, before
\* segment_pharynx is called, and keeps the copied intensities; every other
\* slice is assigned extract_largest_binary_object(segment_pharynx(I))
segment_pharynxes(stack) ==
    [s \in Slices |->
        IF Lower(s[2]) = "tl"
        THEN stack[s]
        ELSE MaskImage(extract_largest_binary_object(segment_pharynx(s[2], stack[s])))]

\* calculate_midline of a slice of the rotated mask stack.  The resampling
\* is not computed: with wrap and edge filling it makes no foreground in an
\* image without any, and an image that had foreground is taken to keep
\* some in the frame.  regionprops(label(.))[0] exists when there is a
\* nonzero pixel.
MidlineOfSlice(slice) ==
    [kind |-> IF slice.px = {} THEN "None" ELSE "Polynomial", fit_on |-> slice]

\* xr.apply_ufunc(calculate_midline, rot_seg_stack, ..., vectorize=True)
calculate_midlines(rot_seg_stack) ==
    [s \in Slices |-> MidlineOfSlice(rot_seg_stack[s])]

InitPipe ==
    /\ IdleOutsidePipe
    /\ RotIdle
    /\ \E im \in [Animals \X Wavelengths -> FlImageChoices \cup TLImageChoices] :
          /\ \A a \in Animals, w \in Wavelengths :
                im[<<a, w>>] \in IF w = "TL" THEN TLImageChoices ELSE FlImageChoices
          /\ fl_stack = [s \in Slices |-> im[<<s[1], s[2]>>]]
    /\ seg_stack = <<>>
    /\ pipe_midlines = <<>>
    /\ pipe_pc = "segment"

\* seg_stack = segment_pharynxes(fl_stack)
PipeSegment ==
    /\ pipe_pc = "segment"
    /\ seg_stack' = segment_pharynxes(fl_stack)
    /\ pipe_pc' = "segmented"
    /\ UNCHANGED <<fl_stack, pipe_midlines>>
    /\ UNCHANGED varsRot
    /\ UNCHANGED outsidePipe

\* the call center_and_rotate_pharynxes(fl_stack, seg_stack), up to its loop
PipeCallRotate ==
    /\ pipe_pc = "segmented"
    /\ fl_images' = [s \in Slices |-> [at |-> s, by |-> <<>>]]
    /\ seg_images' = [s \in Slices |-> [at |-> s, px |-> Nonzero(seg_stack[s]), by |-> <<>>]]
    /\ wavelengths' = <<"TL", "470", "410">>
    /\ fl_rotated_stack' = fl_images'
    /\ seg_rotated_stack' = seg_images'
    /\ rot_k' = 0
    /\ rot_pc' = "loop"
    /\ rot_out' = <<>>
    /\ pipe_pc' = "rotate"
    /\ UNCHANGED <<fl_stack, seg_stack, pipe_midlines>>
    /\ UNCHANGED outsidePipe

\* midlines = calculate_midlines(rot_seg_stack), once the stacks are returned
PipeMidlines ==
    /\ pipe_pc = "rotate"
    /\ rot_pc = "returned"
    /\ pipe_midlines' = calculate_midlines(rot_out[2])
    /\ pipe_pc' = "done"
    /\ UNCHANGED <<fl_stack, seg_stack>>
    /\ UNCHANGED varsRot
    /\ UNCHANGED outsidePipe

NextPipe ==
    \/ PipeSegment
    \/ PipeCallRotate
    \/ RotateIteration
    \/ RotateRaise
    \/ RotateReturn
    \/ PipeMidlines

SpecPipe == InitPipe /\ [][NextPipe]_vars

----------------------------------------------------------------------------
(* Claims about the pipeline *)

\* C14: on a stack with the TL channel the pipeline segment_pharynxes,
\* center_and_rotate_pharynxes, calculate_midlines does not fail when every
\* reference image shows a pharynx, and when it is done every TL slice has
\* an all-background mask and a null midline
C14_TLSlicesMaskedOut ==
    /\ (\A a \in Animals, pr \in Pairs :
           pipe_pc # "idle" /\ fl_stack[<<a, reference_wavelength, pr>>] # Uniform(0))
          => rot_pc # "raised"
    /\ pipe_pc = "done" =>
          \A s \in Slices :
              s[2] = "TL" => (Nonzero(seg_stack[s]) = {} /\ pipe_midlines[s].kind = "None")

=============================================================================
